---- MODULE Spec2Model ----
(***************************************************************************)
(* StopOdds: the three stores of infra/supabase.sql (submissions,          *)
(* model_runs, aggregates_public), their constraints, policies, functions  *)
(* and views, and the periodic aggregation / fitting job that reads the    *)
(* submissions and writes the other two stores (specification Spec); the   *)
(* daily fraud-signal hash (HashSpec); the submission forms' submit and   *)
(* predict requests (FormSpec); the submit proxy of the web app            *)
(* (ProxySpec); GamifiedForm with its delayed answer callbacks             *)
(* (GamifiedSpec); the stepper forms (StepperSpec); and the data loading   *)
(* of ResultsPage (ResultsSpec).                                           *)
(*                                                                         *)
(* Numbers the schema types as FLOAT are kept as exact fractions           *)
(* <<numerator, denominator>> in lowest terms, denominator > 0.            *)
(***************************************************************************)
EXTENDS Integers, Sequences, FiniteSets, Bags, TLC

VARIABLES
    submissions,        \* table submissions: a bag of rows (ids left out)
    intake_result,      \* outcome of the last intake attempt
    n_intake,           \* rows accepted since Init
    model_runs,         \* table model_runs: sequence of rows, run_id = index
    aggregates_public,  \* table aggregates_public: set of cells
    lease,              \* holder of the fitting lease, or NoJob
    job,                \* per trigger: the fitting job's position and locals
    CURRENT_DATE,       \* the database's calendar day
    hash_log,           \* calls of hash_user_agent made so far, with results
    formState,          \* the submission form's state: data, currentStep, isSubmitting
    showSuccess,        \* the form shows its success screen
    handleSubmit,       \* the running handleSubmit: position and captured data
    predict_request,    \* the query of GET /api/predict in flight, or NoRequest
    personalEstimate,   \* the prediction the success screen gets, or null
    timeouts,           \* pending setTimeout callbacks of AnimatedButton
    proxy,              \* the submit proxy's POST handler: position and locals
    results             \* ResultsPage: its state and the position of fetchData

db_vars == <<submissions, intake_result, n_intake, model_runs,
             aggregates_public, lease, job>>
hash_vars == <<CURRENT_DATE, hash_log>>
form_vars == <<formState, showSuccess, handleSubmit, predict_request, personalEstimate>>
ui_vars == <<timeouts, proxy, results>>

vars == <<db_vars, hash_vars, form_vars, ui_vars>>

----------------------------------------------------------------------------
(* Bounds of the model *)

MaxIntake == 2      \* rows accepted on top of the initial corpus
MaxRuns == 2        \* model runs created
MaxDay == 3         \* calendar days the hash is followed over
MaxCalls == 3       \* calls of hash_user_agent

----------------------------------------------------------------------------
(* Enumerations, supabase.sql lines 7-17 *)

NULL == "NULL"

age_bracket_enum == {"18-24", "25-34", "35-44", "45+"}
gender_enum == {"Male", "Female", "Nonbinary", "PreferNot"}
ethnicity_enum == {"Anglo Australian", "Indigenous", "South Asian", "East Asian",
                   "Southeast Asian", "Middle Eastern", "African", "European",
                   "Latin American", "Other", "PreferNot"}
skin_tone_enum == {"Light", "Medium", "Dark", "PreferNot"}
height_bracket_enum == {"<160", "160-175", "175-190", ">190"}
model_type_enum == {"poisson", "negbin", "lightgbm"}
BOOLEAN_sql == {"true", "false"}

Traits == {"age_bracket", "gender", "ethnicity", "skin_tone", "height_bracket",
           "visible_disability", "concession"}

TraitEnum(trait) ==
    CASE trait = "age_bracket" -> age_bracket_enum
      [] trait = "gender" -> gender_enum
      [] trait = "ethnicity" -> ethnicity_enum
      [] trait = "skin_tone" -> skin_tone_enum
      [] trait = "height_bracket" -> height_bracket_enum
      [] trait = "visible_disability" -> BOOLEAN_sql
      [] trait = "concession" -> BOOLEAN_sql

----------------------------------------------------------------------------
(* Exact fractions *)

RECURSIVE GCD(_, _)
GCD(a, b) == IF b = 0 THEN a ELSE GCD(b, a % b)

Abs(x) == IF x < 0 THEN -x ELSE x

Frac(n, d) ==
    LET g == GCD(Abs(n), Abs(d))
        s == IF d < 0 THEN -1 ELSE 1
    IN  <<(s * n) \div g, (s * d) \div g>>

FracAdd(x, y) == Frac(x[1] * y[2] + y[1] * x[2], x[2] * y[2])
FracScale(x, k) == Frac(x[1] * k, x[2])
FracDivInt(x, k) == Frac(x[1], x[2] * k)
FracLess(x, y) == x[1] * y[2] < y[1] * x[2]

----------------------------------------------------------------------------
(* Table submissions, supabase.sql lines 20-34 *)

Row(ab, g, e, st, h, vd, c, t, s) ==
    [age_bracket |-> ab, gender |-> g, ethnicity |-> e, skin_tone |-> st,
     height_bracket |-> h, visible_disability |-> vd, concession |-> c,
     trips |-> t, stops |-> s]

trips_max == 200
trips_min == 1
stops_min == 0

submissions_CHECK_mut(row) ==
    /\ row.trips >= trips_min /\ row.trips <= trips_max
    /\ row.stops >= stops_min

\* CHECK (trips >= 1 AND trips <= 200), CHECK (stops >= 0),
\* CONSTRAINT stops_not_exceed_trips CHECK (stops <= trips)
submissions_CHECK(row) ==
    /\ row.trips >= trips_min /\ row.trips <= trips_max
    /\ row.stops >= stops_min
    /\ row.stops <= row.trips

submissions_TYPES_mut(row) ==
    \A trait \in Traits \ {"height_bracket"} :
        row[trait] = NULL \/ row[trait] \in TraitEnum(trait)

\* the column types: a trait is NULL or a member of its enum
submissions_TYPES(row) ==
    \A trait \in Traits : row[trait] = NULL \/ row[trait] \in TraitEnum(trait)

\* the rows of insert_sample_data with other counts, and rows at the limits
rMale == Row("25-34", "Male", "Anglo Australian", "Light", "175-190", "false", "false", 4, 1)
rFemale == Row("35-44", "Female", "South Asian", "Medium", "160-175", "false", "true", 2, 0)
rNonbinary == Row("18-24", "Nonbinary", "East Asian", "Light", "<160", "false", "true", 2, 0)
rLimit == Row(NULL, NULL, NULL, NULL, NULL, NULL, NULL, 200, 200)
rAfrican == [rMale EXCEPT !.ethnicity = "African"]

WithCounts(row, t, s) == [row EXCEPT !.trips = t, !.stops = s]

\* what intake is offered: rows inside the limits, rows just outside them,
\* and rows with a trait value that its enum does not have ('PreferNot' is an
\* option of the form's height question, formConfig.ts line 85)
Candidates ==
    {rAfrican, rNonbinary, rLimit,
     WithCounts(rLimit, 0, 0), WithCounts(rLimit, 201, 1),
     WithCounts(rLimit, 5, -1), WithCounts(rLimit, 3, 4),
     WithCounts(rLimit, 200, 201),
     [rMale EXCEPT !.height_bracket = "PreferNot"],
     [rNonbinary EXCEPT !.gender = "Other"]}

\* corpora the store can hold when the model starts
Copies(row, n) == IF n = 0 THEN EmptyBag ELSE [r \in {row} |-> n]

Corpus(nMale, nFemale, nNonbinary) ==
    Copies(rMale, nMale) (+) Copies(rFemale, nFemale) (+) Copies(rNonbinary, nNonbinary)

InitialCorpora == {EmptyBag, Corpus(1, 1, 0), Corpus(99, 351, 49)}

\* the four rows of insert_sample_data(), lines 157-160
sample_data ==
    SetToBag({Row("25-34", "Male", "Anglo Australian", "Light", "175-190", "false", "false", 20, 1),
              Row("35-44", "Female", "South Asian", "Medium", "160-175", "false", "true", 25, 2),
              Row("18-24", "Nonbinary", "East Asian", "Light", "<160", "false", "true", 15, 0),
              Row("45+", "Male", "Indigenous", "Dark", ">190", "true", "true", 30, 3)})

RECURSIVE SumOver(_, _, _)
\* SUM(column) over the rows of bag B that are in the set S of its rows
SumOver(B, S, column) ==
    IF S = {} THEN 0
    ELSE LET r == CHOOSE x \in S : TRUE
         IN  CopiesIn(r, B) * r[column] + SumOver(B, S \ {r}, column)

COUNT(B) == BagCardinality(B)
SUM(B, column) == SumOver(B, BagToSet(B), column)

----------------------------------------------------------------------------
(* Functions and views of supabase.sql *)

calculate_rate_per_100_mut(stops, trips) ==
    IF trips = 0 THEN Frac(0, 1)
    ELSE Frac((stops \div trips) * 100, 1)

\* calculate_rate_per_100(stops, trips), lines 93-101
calculate_rate_per_100(stops, trips) ==
    IF trips = 0 THEN Frac(0, 1)
    ELSE FracScale(Frac(stops, trips), 100)

min_submissions == 500
min_stops == 100

\* check_minimum_sample(), lines 104-125, over the table contents B
check_minimum_sample(B) ==
    LET sub_count == COUNT(B)
        stop_count == SUM(B, "stops")       \* COALESCE(SUM(stops), 0)
    IN  [total_submissions |-> sub_count,
         total_stops |-> stop_count,
         meets_minimum |-> (sub_count >= min_submissions /\ stop_count >= min_stops)]

RECURSIVE SumRates(_, _)
\* the sum of calculate_rate_per_100(stops, trips) over the rows of B in S
SumRates(B, S) ==
    IF S = {} THEN Frac(0, 1)
    ELSE LET r == CHOOSE x \in S : TRUE
         IN  FracAdd(FracScale(calculate_rate_per_100(r.stops, r.trips), CopiesIn(r, B)),
                     SumRates(B, S \ {r}))

\* AVG(calculate_rate_per_100(stops, trips)); NULL over no rows
AVG_rate(B) ==
    IF COUNT(B) = 0 THEN NULL
    ELSE FracDivInt(SumRates(B, BagToSet(B)), COUNT(B))

\* view public_stats, lines 128-136 (first/last_submission left out)
public_stats(B) ==
    [total_submissions |-> COUNT(B),
     total_trips |-> IF COUNT(B) = 0 THEN NULL ELSE SUM(B, "trips"),
     total_stops |-> IF COUNT(B) = 0 THEN NULL ELSE SUM(B, "stops"),
     avg_rate_per_100 |-> AVG_rate(B)]

----------------------------------------------------------------------------
(* Activation requirements as the methodology page states them,            *)
(* methodology/page.tsx lines 380-402                                      *)

page_min_submissions == 300
page_min_stops == 50

MethodologyPage_ActivationRequirements(total_submissions, total_stops) ==
    total_submissions >= page_min_submissions /\ total_stops >= page_min_stops

----------------------------------------------------------------------------
(* Aggregator and PrivacyGate; table aggregates_public, lines 49-60 *)

k_anonymity_mut == 50 - 1
\* k-anonymity floor: CHECK (n_people >= 50)
k_anonymity == 50

\* the rows of B whose trait has the value v
GroupRows(B, trait, v) ==
    [r \in {x \in BagToSet(B) : x[trait] = v} |-> CopiesIn(r, B)]

GroupKeys(B) ==
    {k \in {<<trait, r[trait]>> : trait \in Traits, r \in BagToSet(B)} : k[2] # NULL}

\* one single-trait marginal cell
GroupCell(B, trait, v) ==
    LET G == GroupRows(B, trait, v)
    IN  [group_key |-> <<trait, v>>,
         n_people |-> COUNT(G),
         n_trips |-> SUM(G, "trips"),
         n_stops |-> SUM(G, "stops"),
         rate_per_100 |-> calculate_rate_per_100(SUM(G, "stops"), SUM(G, "trips"))]

Aggregator(B) == {GroupCell(B, k[1], k[2]) : k \in GroupKeys(B)}

suppress(cell) == cell.n_people < k_anonymity

PrivacyGate(cells) == {c \in cells : ~suppress(c)}

\* CHECK (n_people >= 50)
aggregates_public_CHECK(cell) == cell.n_people >= k_anonymity

\* the rows the table holds after the cells are inserted for run run_id
aggregates_public_INSERT(cells, run_id) ==
    {[group_key |-> c.group_key, n_people |-> c.n_people, n_trips |-> c.n_trips,
      n_stops |-> c.n_stops, rate_per_100 |-> c.rate_per_100,
      model_run_id |-> run_id] : c \in {x \in cells : aggregates_public_CHECK(x)}}

----------------------------------------------------------------------------
(* Table model_runs, lines 37-46; ModelRegistry *)

public_snapshot_DEFAULT_mut == TRUE
\* public_snapshot BOOLEAN DEFAULT FALSE
public_snapshot_DEFAULT == FALSE

\* INSERT INTO model_runs of a fitted model, public_snapshot left to its default
model_runs_INSERT(runs, fit) ==
    Append(runs, [run_id |-> Len(runs) + 1,
                  model_type |-> fit.model_type,
                  train_rows |-> fit.train_rows,
                  metrics |-> fit.metrics,
                  coeffs |-> fit.coeffs,
                  public_snapshot |-> public_snapshot_DEFAULT])

publish_mut(runs, run_id) ==
    [i \in DOMAIN runs |->
        IF i # run_id /\ runs[i].public_snapshot
        THEN [runs[i] EXCEPT !.public_snapshot = FALSE,
                             !.coeffs = runs[run_id].coeffs,
                             !.metrics = runs[run_id].metrics]
        ELSE [runs[i] EXCEPT !.public_snapshot = (i = run_id)]]

\* publish(run_id): the current pointer moves to run_id
publish(runs, run_id) ==
    [i \in DOMAIN runs |-> [runs[i] EXCEPT !.public_snapshot = (i = run_id)]]

PublishedRuns == {i \in DOMAIN model_runs : model_runs[i].public_snapshot}

model_runs_POLICY_mut(row) == TRUE
\* POLICY "Public read access to public model runs": USING (public_snapshot = true)
model_runs_POLICY(row) == row.public_snapshot = TRUE

PublicRoles == {"anon", "authenticated"}

\* SELECT * FROM model_runs as one of the roles granted SELECT (lines 139-141)
SELECT_model_runs(role) ==
    IF role \in PublicRoles
    THEN {model_runs[i] : i \in {x \in DOMAIN model_runs : model_runs_POLICY(model_runs[x])}}
    ELSE {model_runs[i] : i \in DOMAIN model_runs}

----------------------------------------------------------------------------
(* RateModel *)

anomaly_trips == 100

\* implausible but in range: flagged, kept, left out of training
is_anomalous(row) == row.trips > anomaly_trips

TrainingRows(B) == [r \in {x \in BagToSet(B) : ~is_anomalous(x)} |-> CopiesIn(r, B)]

\* Pearson chi-square / residual degrees of freedom, as the fit may find it
DispersionRatios == {<<3, 2>>, <<8, 5>>}
dispersion_threshold == <<3, 2>>

ModelType(dispersion_ratio) ==
    IF FracLess(dispersion_threshold, dispersion_ratio) THEN "negbin" ELSE "poisson"

\* the values of each trait in alphabetical (code point) order
AlphabeticalOrder(trait) ==
    CASE trait = "age_bracket" -> <<"18-24", "25-34", "35-44", "45+">>
      [] trait = "gender" -> <<"Female", "Male", "Nonbinary", "PreferNot">>
      [] trait = "ethnicity" -> <<"African", "Anglo Australian", "East Asian", "European",
                                  "Indigenous", "Latin American", "Middle Eastern",
                                  "Other", "PreferNot", "South Asian", "Southeast Asian">>
      [] trait = "skin_tone" -> <<"Dark", "Light", "Medium", "PreferNot">>
      [] trait = "height_bracket" -> <<"160-175", "175-190", "<160", ">190">>
      [] trait = "visible_disability" -> <<"false", "true">>
      [] trait = "concession" -> <<"false", "true">>

\* dummy encoding of the categories found in the training rows T: the
\* reference category of a trait is the first of them alphabetically
ReferenceLevel(trait, T) ==
    LET present == {r[trait] : r \in BagToSet(T)}
        order == AlphabeticalOrder(trait)
        found == {i \in DOMAIN order : order[i] \in present}
    IN  IF found = {} THEN NULL
        ELSE order[CHOOSE i \in found : \A k \in found : i <= k]

\* IRR = exp(beta); the reference level has beta = 0, another level has the
\* ratio of its fitted rate to the fitted rate of the reference level
irr_vs_ref(T, trait, v, ref) ==
    LET rate == GroupCell(T, trait, v).rate_per_100
        ref_rate == GroupCell(T, trait, ref).rate_per_100
    IN  IF v = ref THEN <<1, 1>>
        ELSE IF ref_rate[1] = 0 THEN NULL
        ELSE Frac(rate[1] * ref_rate[2], rate[2] * ref_rate[1])

\* a converged fit over the rows B with the dispersion ratio d
Fit(B, d) ==
    LET T == TrainingRows(B)
    IN  [model_type |-> ModelType(d),
         train_rows |-> COUNT(T),
         metrics |-> [dispersion_ratio |-> d],
         coeffs |-> [intercept_rate_per_100 |->
                        calculate_rate_per_100(SUM(T, "stops"), SUM(T, "trips")),
                     reference |-> [trait \in Traits |-> ReferenceLevel(trait, T)],
                     irr_vs_ref |-> [k \in GroupKeys(T) |->
                        irr_vs_ref(T, k[1], k[2], ReferenceLevel(k[1], T))]]]

----------------------------------------------------------------------------
(* The aggregation / fitting job: a triggerable batch task under one lease *)

Jobs == {"scheduled", "manual"}
NoJob == "none"

IdleJob == [pc |-> "idle", snapshot |-> EmptyBag, cells |-> {}, fit |-> <<>>, run_id |-> 0]

Running(j) == job[j].pc \in {"running", "fitted", "stored"}

----------------------------------------------------------------------------
(* hash_user_agent, supabase.sql lines 83-90. TEXT values are sequences of *)
(* characters, so that || is concatenation.                                *)

\* User-Agent headers: two that differ by a trailing digit, an empty one,
\* and a missing one
NULL_TEXT == <<NULL>>
UserAgents == {<<"U", "A">>, <<"U", "A", "1">>, <<>>, NULL_TEXT}

\* CURRENT_DATE::TEXT is YYYY-MM-DD; the days are the first of a month
DateText(day) ==
    <<"2", "0", "2", "5", "-", "0", "1", "-", "0">>
        \o <<(<<"1", "2", "3", "4", "5", "6", "7", "8", "9">>)[day]>>

stopodds_salt == <<"s", "t", "o", "p", "o", "d", "d", "s", "_", "s", "a", "l", "t">>

\* encode(digest(data, 'sha256'), 'hex'): SHA-256 is taken to be free of
\* collisions, so the digest stands for the data it was made from
digest_hex(data) == <<"sha256", data>>

hash_user_agent_mut(user_agent, current_date) ==
    IF user_agent = NULL_TEXT THEN NULL_TEXT
    ELSE digest_hex(user_agent \o stopodds_salt)

\* digest(user_agent || CURRENT_DATE::TEXT || 'stopodds_salt'); NULL || x is NULL
hash_user_agent(user_agent, current_date) ==
    IF user_agent = NULL_TEXT THEN NULL_TEXT
    ELSE digest_hex(user_agent \o DateText(current_date) \o stopodds_salt)

hash_idle ==
    /\ CURRENT_DATE = 1
    /\ hash_log = <<>>

----------------------------------------------------------------------------
(* MaterialSubmissionForm and GamifiedForm (part_003): the form data and   *)
(* handleSubmit. A JavaScript value is <<type, text>>.                     *)

JSundefined == <<"undefined", "undefined">>
JSnull == <<"null", "null">>
JSstring(text) == <<"string", text>>
JSboolean(text) == <<"boolean", text>>
JSnumber(n) == <<"number", n>>

RECURSIVE DecimalText(_)
\* the decimal digits of n >= 0
DecimalText(n) ==
    IF n < 10 THEN (<<"0", "1", "2", "3", "4", "5", "6", "7", "8", "9">>)[n + 1]
    ELSE DecimalText(n \div 10) \o DecimalText(n % 10)

\* value.toString()
toString(value) == IF value[1] = "number" THEN DecimalText(value[2]) ELSE value[2]

\* the ids of formFields in their order in formConfig.ts
FieldOrder == <<"trips", "stops", "age_bracket", "gender", "ethnicity", "skin_tone",
                "height_bracket", "visible_disability", "concession">>

FieldIds == {FieldOrder[i] : i \in DOMAIN FieldOrder}

\* values the inputs and option buttons of a field hand to updateField or
\* handleAnswer: a few of them, and none for three of the select fields
FieldValues(fieldId) ==
    CASE fieldId = "trips" -> {JSnumber(3)}
      [] fieldId = "stops" -> {JSnumber(1)}
      [] fieldId = "age_bracket" -> {JSstring("18-24")}
      [] fieldId = "gender" -> {JSstring("Male"), JSnull}
      [] fieldId = "height_bracket" -> {JSstring("PreferNot")}
      [] fieldId = "concession" -> {JSboolean("false"), JSnull}
      [] OTHER -> {}

\* useState: data: { trips: 0, stops: 0 }; a key not in the object reads undefined
InitialData ==
    [fieldId \in FieldIds |->
        IF fieldId \in {"trips", "stops"} THEN JSnumber(0) ELSE JSundefined]

NoRequest == <<"none">>
NotCalled == [pc |-> "idle", data |-> InitialData, submit |-> "none", predict |-> "none"]

RECURSIVE EntriesFrom(_, _, _)
\* Object.entries(data).forEach from the i-th entry on: an entry whose value
\* is neither null nor undefined and whose key is not in skipped is appended
\* as <<key, value.toString()>>
EntriesFrom(data, i, skipped) ==
    IF i > Len(FieldOrder) THEN <<>>
    ELSE LET key == FieldOrder[i]
             value == data[key]
         IN  (IF value # JSnull /\ value # JSundefined /\ key \notin skipped
              THEN <<<<key, toString(value)>>>> ELSE <<>>)
                 \o EntriesFrom(data, i + 1, skipped)

traits_query_mut(data) == EntriesFrom(data, 1, {})

\* the URLSearchParams traits that handleSubmit builds, lines 267-273 and
\* 829-835: key !== 'trips' && key !== 'stops'
traits_query(data) == EntriesFrom(data, 1, {"trips", "stops"})

\* useState<FormState>: data, isSubmitting, currentStep (errors left out)
InitialFormState == [data |-> InitialData, isSubmitting |-> FALSE, currentStep |-> 0]

form_idle ==
    /\ formState = InitialFormState
    /\ showSuccess = FALSE
    /\ handleSubmit = NotCalled
    /\ predict_request = NoRequest
    /\ personalEstimate = JSnull

\* the proxy's POST handler between two requests
ProxyIdle ==
    [pc |-> "idle", body |-> InitialData, sanitizedBody |-> InitialData,
     backend |-> <<"none", 0>>, response |-> <<0, "none">>]

\* ResultsPage: useState of overview, methods, loading and error, and the
\* locals of fetchData
ResultsPage_useState ==
    [pc |-> "unmounted", overview |-> JSnull, methods |-> JSnull,
     loading |-> TRUE, error |-> JSnull,
     overviewRes |-> <<"none", 0>>, methodsRes |-> <<"none", 0>>, err |-> "none"]

\* no answer pending, no request at the proxy, ResultsPage not mounted
ui_idle ==
    /\ timeouts = <<>>
    /\ proxy = ProxyIdle
    /\ results = ResultsPage_useState

----------------------------------------------------------------------------
db_idle ==
    /\ submissions = EmptyBag
    /\ intake_result = "none"
    /\ n_intake = 0
    /\ model_runs = <<>>
    /\ aggregates_public = {}
    /\ lease = NoJob
    /\ job = [j \in Jobs |-> IdleJob]

Init ==
    /\ submissions \in InitialCorpora
    /\ intake_result = "none"
    /\ n_intake = 0
    /\ model_runs = <<>>
    /\ aggregates_public = {}
    /\ lease = NoJob
    /\ job = [j \in Jobs |-> IdleJob]
    /\ hash_idle
    /\ form_idle
    /\ ui_idle

\* POST /api/submit reaching INSERT INTO submissions: stored if the values
\* convert to the column types and the table's constraints hold, rejected
\* with the reason otherwise
Intake(c) ==
    /\ n_intake < MaxIntake
    /\ IF submissions_TYPES(c) /\ submissions_CHECK(c)
       THEN /\ submissions' = submissions (+) SetToBag({c})
            /\ n_intake' = n_intake + 1
            /\ intake_result' = "accepted"
       ELSE /\ intake_result' = IF submissions_TYPES(c) THEN "check_violation"
                                ELSE "invalid_enum_value"
            /\ UNCHANGED <<submissions, n_intake>>
    /\ UNCHANGED <<model_runs, aggregates_public, lease, job>>
    /\ UNCHANGED <<hash_vars, form_vars, ui_vars>>

\* SELECT insert_sample_data() on a fresh table (development and testing)
insert_sample_data ==
    /\ submissions = EmptyBag
    /\ submissions' = submissions (+) sample_data
    /\ UNCHANGED <<intake_result, n_intake, model_runs, aggregates_public, lease, job>>
    /\ UNCHANGED <<hash_vars, form_vars, ui_vars>>

StartJob_mut(j) ==
    /\ ~Running(j)
    /\ Len(model_runs) < MaxRuns
    /\ lease' = j
    /\ job' = [job EXCEPT ![j] = [IdleJob EXCEPT !.pc = "running", !.snapshot = submissions]]
    /\ UNCHANGED <<submissions, intake_result, n_intake, model_runs, aggregates_public>>
    /\ UNCHANGED <<hash_vars, form_vars, ui_vars>>

\* a trigger starts the job: take the lease and a snapshot of the submissions
StartJob(j) ==
    /\ ~Running(j)
    /\ lease = NoJob
    /\ Len(model_runs) < MaxRuns
    /\ lease' = j
    /\ job' = [job EXCEPT ![j] = [IdleJob EXCEPT !.pc = "running", !.snapshot = submissions]]
    /\ UNCHANGED <<submissions, intake_result, n_intake, model_runs, aggregates_public>>
    /\ UNCHANGED <<hash_vars, form_vars, ui_vars>>

ReleaseLease(j) == lease' = IF lease = j THEN NoJob ELSE lease

\* too few rows: abort, publish nothing
AbortInsufficient(j) ==
    /\ job[j].pc = "running"
    /\ ~check_minimum_sample(job[j].snapshot).meets_minimum
    /\ job' = [job EXCEPT ![j] = [IdleJob EXCEPT !.pc = "aborted"]]
    /\ ReleaseLease(j)
    /\ UNCHANGED <<submissions, intake_result, n_intake, model_runs, aggregates_public>>
    /\ UNCHANGED <<hash_vars, form_vars, ui_vars>>

AbortNonConvergence_mut(j) ==
    /\ job[j].pc = "running"
    /\ check_minimum_sample(job[j].snapshot).meets_minimum
    /\ job' = [job EXCEPT ![j] = [IdleJob EXCEPT !.pc = "aborted"]]
    /\ model_runs' = [i \in DOMAIN model_runs |->
                        [model_runs[i] EXCEPT !.public_snapshot = FALSE]]
    /\ ReleaseLease(j)
    /\ UNCHANGED <<submissions, intake_result, n_intake, aggregates_public>>
    /\ UNCHANGED <<hash_vars, form_vars, ui_vars>>

\* the fit does not converge and no fallback is left: abort, publish nothing
AbortNonConvergence(j) ==
    /\ job[j].pc = "running"
    /\ check_minimum_sample(job[j].snapshot).meets_minimum
    /\ job' = [job EXCEPT ![j] = [IdleJob EXCEPT !.pc = "aborted"]]
    /\ ReleaseLease(j)
    /\ UNCHANGED <<submissions, intake_result, n_intake, model_runs, aggregates_public>>
    /\ UNCHANGED <<hash_vars, form_vars, ui_vars>>

FitJob_mut(j, d) ==
    /\ job[j].pc = "running"
    /\ check_minimum_sample(submissions).meets_minimum
    /\ job' = [job EXCEPT ![j].pc = "fitted",
                          ![j].cells = PrivacyGate(Aggregator(submissions)),
                          ![j].fit = Fit(submissions, d)]
    /\ UNCHANGED <<submissions, intake_result, n_intake, model_runs,
                   aggregates_public, lease>>
    /\ UNCHANGED <<hash_vars, form_vars, ui_vars>>

\* aggregate and fit, in the job's own memory
FitJob(j, d) ==
    /\ job[j].pc = "running"
    /\ check_minimum_sample(job[j].snapshot).meets_minimum
    /\ job' = [job EXCEPT ![j].pc = "fitted",
                          ![j].cells = PrivacyGate(Aggregator(job[j].snapshot)),
                          ![j].fit = Fit(job[j].snapshot, d)]
    /\ UNCHANGED <<submissions, intake_result, n_intake, model_runs,
                   aggregates_public, lease>>
    /\ UNCHANGED <<hash_vars, form_vars, ui_vars>>

\* the ModelRegistry stores the finished run
StoreRun(j) ==
    /\ job[j].pc = "fitted"
    /\ model_runs' = model_runs_INSERT(model_runs, job[j].fit)
    /\ job' = [job EXCEPT ![j].pc = "stored", ![j].run_id = Len(model_runs) + 1]
    /\ UNCHANGED <<submissions, intake_result, n_intake, aggregates_public, lease>>
    /\ UNCHANGED <<hash_vars, form_vars, ui_vars>>

\* success: the cells replace the public aggregates and the run becomes current
PublishJob(j) ==
    /\ job[j].pc = "stored"
    /\ model_runs' = publish(model_runs, job[j].run_id)
    /\ aggregates_public' = aggregates_public_INSERT(job[j].cells, job[j].run_id)
    /\ job' = [job EXCEPT ![j] = [IdleJob EXCEPT !.pc = "published"]]
    /\ ReleaseLease(j)
    /\ UNCHANGED <<submissions, intake_result, n_intake>>
    /\ UNCHANGED <<hash_vars, form_vars, ui_vars>>

\* publish(run_id) of a stored run by hand (rollback)
Publish(run_id) ==
    /\ run_id \in DOMAIN model_runs
    /\ ~model_runs[run_id].public_snapshot
    /\ \A j \in Jobs : job[j].run_id # run_id
    /\ model_runs' = publish(model_runs, run_id)
    /\ UNCHANGED <<submissions, intake_result, n_intake, aggregates_public, lease, job>>
    /\ UNCHANGED <<hash_vars, form_vars, ui_vars>>

Next ==
    \/ \E c \in Candidates : Intake(c)
    \/ insert_sample_data
    \/ \E j \in Jobs : StartJob(j)
    \/ \E j \in Jobs : AbortInsufficient(j)
    \/ \E j \in Jobs : AbortNonConvergence(j)
    \/ \E j \in Jobs, d \in DispersionRatios : FitJob(j, d)
    \/ \E j \in Jobs : StoreRun(j)
    \/ \E j \in Jobs : PublishJob(j)
    \/ \E run_id \in 1..MaxRuns : Publish(run_id)

Spec == Init /\ [][Next]_vars

----------------------------------------------------------------------------
(* Read side *)

\* GET /api/overview: corpus totals and the public cells
overview ==
    [total_submissions |-> COUNT(submissions),
     total_trips |-> SUM(submissions, "trips"),
     total_stops |-> SUM(submissions, "stops"),
     groups |-> {[group_key |-> c.group_key, n_people |-> c.n_people,
                  n_trips |-> c.n_trips, n_stops |-> c.n_stops,
                  rate_per_100 |-> c.rate_per_100] : c \in aggregates_public}]

NaN == <<0, 0>>

\* MaterialSuccessScreen: (overviewData.total_stops / overviewData.total_trips) * 100
populationRate(overviewData) ==
    IF overviewData.total_trips = 0 THEN NaN
    ELSE FracScale(Frac(overviewData.total_stops, overviewData.total_trips), 100)

FullyFormed(run) ==
    /\ run.model_type \in model_type_enum
    /\ run.train_rows > 0
    /\ DOMAIN run.metrics # {}
    /\ DOMAIN run.coeffs # {}

----------------------------------------------------------------------------
(* C1: every row held in the submissions store has 1 <= trips <= 200 and   *)
(* 0 <= stops <= trips, whatever candidates intake was offered.            *)
C1_AcceptedRowsInBounds ==
    \A r \in BagToSet(submissions) :
        /\ 1 <= r.trips /\ r.trips <= 200
        /\ 0 <= r.stops /\ r.stops <= r.trips

\* a row at the limits is stored and the last candidate was turned away
C1_Witness ==
    /\ intake_result = "check_violation"
    /\ BagIn(rLimit, submissions)

(* C2: every cell in the public aggregates store and in overview output    *)
(* has n_people >= 50; a smaller group has no cell at all.                 *)
C2_PublishedCellsAtLeast50 ==
    /\ \A c \in aggregates_public : c.n_people >= 50
    /\ \A g \in overview.groups : g.n_people >= 50

\* cells are published while a group of fewer than 50 people has none
C2_Witness ==
    /\ aggregates_public # {}
    /\ \E k \in GroupKeys(submissions) :
          /\ GroupCell(submissions, k[1], k[2]).n_people < 50
          /\ \A g \in overview.groups : g.group_key # k

(* C3: every rate the program exposes over a set of submissions is         *)
(* (sum of stops) / (sum of trips) x 100 over that set: the cells, the     *)
(* avg_rate_per_100 of public_stats, the success screen's population rate. *)
C3_RatesAreAdditive ==
    LET additive == Frac(100 * SUM(submissions, "stops"), SUM(submissions, "trips"))
    IN  /\ \A c \in aggregates_public : c.rate_per_100 = Frac(100 * c.n_stops, c.n_trips)
        /\ COUNT(submissions) > 0 =>
              /\ populationRate(overview) = additive
              /\ public_stats(submissions).avg_rate_per_100 = additive

(* C4: the activation gate is met exactly when total_submissions >= 500    *)
(* and total_stops >= 100, and the requirements the methodology page       *)
(* states are that same gate.                                              *)
C4_SingleActivationGate ==
    LET m == check_minimum_sample(submissions)
    IN  /\ m.meets_minimum <=> (m.total_submissions >= 500 /\ m.total_stops >= 100)
        /\ MethodologyPage_ActivationRequirements(m.total_submissions, m.total_stops)
              <=> m.meets_minimum

(* C5: at most one model run has public_snapshot set.                      *)
C5_AtMostOnePublished == Cardinality(PublishedRuns) <= 1

\* a second run has taken over from the first
C5_Witness ==
    /\ Len(model_runs) = 2
    /\ model_runs[2].public_snapshot
    /\ ~model_runs[1].public_snapshot

PublishStep ==
    \/ \E run_id \in 1..MaxRuns : Publish(run_id)
    \/ \E j \in Jobs : PublishJob(j)

(* C6: a publish changes only which run is current: every stored run keeps *)
(* its model_type, train_rows, coeffs and metrics, and no run is deleted.  *)
C6_PublishFrame ==
    [][PublishStep =>
          /\ DOMAIN model_runs' = DOMAIN model_runs
          /\ \A i \in DOMAIN model_runs :
                /\ model_runs'[i].run_id = model_runs[i].run_id
                /\ model_runs'[i].model_type = model_runs[i].model_type
                /\ model_runs'[i].train_rows = model_runs[i].train_rows
                /\ model_runs'[i].coeffs = model_runs[i].coeffs
                /\ model_runs'[i].metrics = model_runs[i].metrics]_vars

\* two different runs are stored and the pointer is back on the older one
C6_Witness ==
    /\ Len(model_runs) = 2
    /\ model_runs[1].public_snapshot
    /\ ~model_runs[2].public_snapshot
    /\ model_runs[1].coeffs # model_runs[2].coeffs
    /\ \A j \in Jobs : ~Running(j)

(* C7: a public reader of model_runs sees only runs that are published and *)
(* fully formed, never the run of a job still in progress.                 *)
C7_PublicReadersSeePublishedOnly ==
    \A role \in PublicRoles : \A run \in SELECT_model_runs(role) :
        /\ run.public_snapshot
        /\ FullyFormed(run)
        /\ \A j \in Jobs : Running(j) => job[j].run_id # run.run_id

\* a job has stored its run and not yet published it; readers see the older one
C7_Witness ==
    /\ \E j \in Jobs : job[j].pc = "stored" /\ ~model_runs[job[j].run_id].public_snapshot
    /\ SELECT_model_runs("anon") # {}

(* C8: a job that fails publishes nothing: no step of a job other than its *)
(* final publish changes what readers get, so the run current before the   *)
(* job is current during it and after it aborts.                           *)
C8_FailedJobKeepsCurrent ==
    [][\A j \in Jobs :
          (job'[j] # job[j] /\ job'[j].pc # "published") =>
              /\ PublishedRuns' = PublishedRuns
              /\ SELECT_model_runs("anon")' = SELECT_model_runs("anon")
              /\ aggregates_public' = aggregates_public]_vars

\* a job has aborted and the earlier run is still the current one
C8_Witness ==
    /\ \E j \in Jobs : job[j].pc = "aborted"
    /\ PublishedRuns = {1}
    /\ Len(model_runs) = 1

(* C9: at most one fitting job is running at any time.                     *)
C9_OneFittingJob == Cardinality({j \in Jobs : Running(j)}) <= 1

\* one trigger's job runs under the lease after the other's has finished
C9_Witness ==
    /\ Running("manual") /\ lease = "manual"
    /\ job["scheduled"].pc = "published"

(* C10: a job computes only from the submissions that existed when it      *)
(* started: its snapshot is the store at its start, and its training row   *)
(* count, its cells and its run come from that snapshot even when rows     *)
(* were inserted meanwhile; the next job's snapshot has those rows.        *)
C10_JobComputesFromSnapshot ==
    [][\A j \in Jobs :
          /\ (job[j].pc # "running" /\ job'[j].pc = "running") =>
                job'[j].snapshot = submissions
          /\ (job[j].pc = "running" /\ job'[j].pc = "fitted") =>
                /\ job'[j].snapshot = job[j].snapshot
                /\ job'[j].cells = PrivacyGate(Aggregator(job[j].snapshot))
                /\ job'[j].fit.train_rows = COUNT(TrainingRows(job[j].snapshot))
          /\ (job[j].pc = "fitted" /\ job'[j].pc = "stored") =>
                model_runs'[job'[j].run_id].train_rows
                    = COUNT(TrainingRows(job[j].snapshot))
          /\ (job[j].pc = "stored" /\ job'[j].pc = "published") =>
                {c.group_key : c \in aggregates_public'}
                    = {c.group_key : c \in PrivacyGate(Aggregator(job[j].snapshot))}]_vars

\* a row arrived while the job ran and the fit does not count it
C10_Witness ==
    \E j \in Jobs :
        /\ job[j].pc = "fitted"
        /\ job[j].snapshot # submissions
        /\ job[j].fit.train_rows = COUNT(TrainingRows(job[j].snapshot))
        /\ job[j].fit.train_rows < COUNT(TrainingRows(submissions))

----------------------------------------------------------------------------
(* What the public roles may read: GRANT SELECT ON public_stats TO anon,   *)
(* authenticated, supabase.sql lines 138-141                               *)

SELECT_public_stats(role) ==
    IF role \in PublicRoles THEN public_stats(submissions) ELSE NULL

\* the totals a reader gets are the trips and stops of the row r itself
Discloses(stats, r) ==
    /\ stats.total_submissions = 1
    /\ stats.total_trips = r.trips
    /\ stats.total_stops = r.stops

(* C11: nothing a public role can read gives away the trips and stops of a *)
(* single submission, a store of one submission included.                  *)
C11_NoIndividualValuesReadable ==
    \A role \in PublicRoles : \A r \in BagToSet(submissions) :
        ~Discloses(SELECT_public_stats(role), r)

(* C12: no stored submission carries a trait value outside its closed      *)
(* enumeration: a candidate with such a value is rejected and not stored.  *)
C12_StoredTraitsInEnum ==
    \A r \in BagToSet(submissions) :
        /\ r.age_bracket \in age_bracket_enum \cup {NULL}
        /\ r.gender \in gender_enum \cup {NULL}
        /\ r.ethnicity \in ethnicity_enum \cup {NULL}
        /\ r.skin_tone \in skin_tone_enum \cup {NULL}
        /\ r.height_bracket \in height_bracket_enum \cup {NULL}

\* a row with traits is stored, and the last candidate was turned away for a
\* trait value its enum does not have
C12_Witness ==
    /\ intake_result = "invalid_enum_value"
    /\ BagIn(rNonbinary, submissions)
    /\ n_intake > 0

\* the columns of a stored submission beside id, created_at, user_agent_hash
submissions_COLUMNS == {"age_bracket", "gender", "ethnicity", "skin_tone",
                        "height_bracket", "visible_disability", "concession",
                        "trips", "stops"}

\* the stored row has a column that marks it as an anomaly
HasAnomalyMarker(row) ==
    \E column \in DOMAIN row : column \notin submissions_COLUMNS

(* C13: a stored submission with 100 < trips <= 200 carries an anomaly      *)
(* marker and is left out of the training rows and of the row count the    *)
(* training gate uses, while it stays in the store.                        *)
C13_AnomaliesFlaggedAndExcluded ==
    /\ \A r \in BagToSet(submissions) :
          is_anomalous(r) => HasAnomalyMarker(r) /\ ~BagIn(r, TrainingRows(submissions))
    /\ check_minimum_sample(submissions).total_submissions
          = COUNT(TrainingRows(submissions))

----------------------------------------------------------------------------
(* PredictionService: GET /api/predict *)

NoTraits == [trait \in Traits |-> NULL]

\* trait sets a predict query may carry: empty, partial, fuller
PredictRequests ==
    {NoTraits,
     [NoTraits EXCEPT !.gender = "Male"],
     [NoTraits EXCEPT !.gender = "Nonbinary", !.age_bracket = "18-24",
                      !.concession = "true"]}

Supplied(traits) == {trait \in Traits : traits[trait] # NULL}

RECURSIVE Ranked(_)
\* the traits of S in one fixed order
Ranked(S) ==
    IF S = {} THEN <<>>
    ELSE LET trait == CHOOSE x \in S : TRUE IN <<trait>> \o Ranked(S \ {trait})

\* the first n elements of s, or all of s
AtMost(s, n) == IF Len(s) <= n THEN s ELSE SubSeq(s, 1, n)

predict_mut(traits) ==
    IF model_runs = <<>> \/ ~check_minimum_sample(submissions).meets_minimum
    THEN [probability |-> calculate_rate_per_100(overview.total_stops, overview.total_trips),
          is_baseline |-> TRUE,
          explanation |-> <<>>]
    ELSE [probability |-> model_runs[Len(model_runs)].coeffs.intercept_rate_per_100,
          is_baseline |-> FALSE,
          explanation |-> AtMost(Ranked(Supplied(traits)), 3)]

\* baseline mode unless a run is published and the activation gate is met
predict(traits) ==
    IF PublishedRuns = {} \/ ~check_minimum_sample(submissions).meets_minimum
    THEN [probability |-> calculate_rate_per_100(overview.total_stops, overview.total_trips),
          is_baseline |-> TRUE,
          explanation |-> <<>>]
    ELSE LET current == model_runs[CHOOSE i \in PublishedRuns : TRUE]
         IN  [probability |-> current.coeffs.intercept_rate_per_100,
              is_baseline |-> FALSE,
              explanation |-> AtMost(Ranked(Supplied(traits)), 3)]

(* C14: while no run is published or the activation gate is unmet, predict *)
(* answers every trait set, the empty one included, with the corpus-wide   *)
(* rate total_stops / total_trips x 100, is_baseline true and no           *)
(* explanation; is_baseline is false only when a published run was used.   *)
C14_BaselineWithoutPublishedModel ==
    \A traits \in PredictRequests :
        LET p == predict(traits)
            m == check_minimum_sample(submissions)
            total_trips == SUM(submissions, "trips")
            total_stops == SUM(submissions, "stops")
        IN  /\ (PublishedRuns = {} \/ m.total_submissions < 500 \/ m.total_stops < 100) =>
                  /\ p.is_baseline = TRUE
                  /\ p.explanation = <<>>
                  /\ p.probability = IF total_trips = 0 THEN <<0, 1>>
                                     ELSE Frac(100 * total_stops, total_trips)
            /\ p.is_baseline = FALSE =>
                  \E i \in DOMAIN model_runs : model_runs[i].public_snapshot

\* the gate is met and a run is stored but not published: still the baseline
C14_Witness ==
    /\ \E j \in Jobs : job[j].pc = "stored"
    /\ PublishedRuns = {}
    /\ predict(NoTraits).is_baseline
    /\ predict(NoTraits).probability = <<25, 3>>

----------------------------------------------------------------------------
\* x rounded to two decimals, halves away from zero (x >= 0)
Round2(x) == Frac((200 * x[1] + x[2]) \div (2 * x[2]), 100)

C16_RateIsZeroWithoutTrips ==
    /\ \A r \in BagToSet(submissions) : calculate_rate_per_100(r.stops, 0) = <<0, 1>>
    /\ \A c \in aggregates_public : c.rate_per_100 # NaN
    /\ populationRate(overview) # NaN
    /\ overview.total_trips = 0 =>
          /\ calculate_rate_per_100(overview.total_stops, overview.total_trips) = <<0, 1>>
          /\ populationRate(overview) = <<0, 1>>

----------------------------------------------------------------------------
(* Model selection as the methodology page states it, methodology/page.tsx *)
(* lines 175-179 ("Primary Model: LightGBM") and 421-425 ("System chooses  *)
(* best performing model (LightGBM preferred)")                            *)

MethodologyPage_AutomaticModelSelection(fitted) ==
    IF "lightgbm" \in fitted THEN "lightgbm" ELSE CHOOSE m \in fitted : TRUE

(* C17: the model_type of a run is decided by its dispersion ratio alone,  *)
(* poisson when the ratio is <= 1.5 and negbin when it is > 1.5, and the   *)
(* gradient-boosted model is never the primary model in place of the GLM.  *)
C17_ModelTypeFromDispersion ==
    \A i \in DOMAIN model_runs :
        LET run == model_runs[i]
            d == run.metrics.dispersion_ratio
        IN  /\ run.model_type = IF 2 * d[1] <= 3 * d[2] THEN "poisson" ELSE "negbin"
            /\ run.model_type # "lightgbm"
            /\ MethodologyPage_AutomaticModelSelection({run.model_type, "lightgbm"})
                  = run.model_type

(* C18: the IRR reference level of each trait is one configured value, the *)
(* same in every run whatever the data, and the irr_vs_ref of the          *)
(* reference level is exactly 1.                                           *)
C18_ReferenceLevelFixed ==
    \A i \in DOMAIN model_runs : \A trait \in Traits :
        LET coeffs == model_runs[i].coeffs
        IN  /\ \A k \in DOMAIN model_runs :
                  model_runs[k].coeffs.reference[trait] = coeffs.reference[trait]
            /\ <<trait, coeffs.reference[trait]>> \in DOMAIN coeffs.irr_vs_ref =>
                  coeffs.irr_vs_ref[<<trait, coeffs.reference[trait]>>] = <<1, 1>>

----------------------------------------------------------------------------
(* The fraud-signal hash over the days: specification HashSpec *)

\* SELECT hash_user_agent(user_agent) for a request's User-Agent header
HashUserAgent(user_agent) ==
    /\ Len(hash_log) < MaxCalls
    /\ hash_log' = Append(hash_log,
                          [user_agent |-> user_agent,
                           date |-> CURRENT_DATE,
                           hash |-> hash_user_agent(user_agent, CURRENT_DATE)])
    /\ UNCHANGED <<CURRENT_DATE, db_vars, form_vars, ui_vars>>

\* the calendar day changes
Midnight ==
    /\ CURRENT_DATE < MaxDay
    /\ CURRENT_DATE' = CURRENT_DATE + 1
    /\ UNCHANGED <<hash_log, db_vars, form_vars, ui_vars>>

HashInit == db_idle /\ hash_idle /\ form_idle /\ ui_idle

HashNext ==
    \/ \E user_agent \in UserAgents : HashUserAgent(user_agent)
    \/ Midnight

HashSpec == HashInit /\ [][HashNext]_vars

(* C19: the fraud-signal token is a function of the client metadata and    *)
(* the calendar day: one User-Agent hashed twice on a day gives one token, *)
(* and hashed on two different days gives two different tokens.            *)
C19_TokenPerClientAndDay ==
    \A i \in DOMAIN hash_log : \A k \in DOMAIN hash_log :
        (hash_log[i].user_agent = hash_log[k].user_agent
            /\ hash_log[i].user_agent # NULL_TEXT) =>
                /\ hash_log[i].hash # NULL_TEXT
                /\ hash_log[i].date = hash_log[k].date <=> hash_log[i].hash = hash_log[k].hash

\* one User-Agent hashed twice on the first day and once more on the second
C19_Witness ==
    /\ Len(hash_log) = 3
    /\ hash_log[1].user_agent = <<"U", "A">>
    /\ hash_log[2].user_agent = hash_log[1].user_agent
    /\ hash_log[3].user_agent = hash_log[1].user_agent
    /\ hash_log[1].date = 1 /\ hash_log[2].date = 1 /\ hash_log[3].date = 2
    /\ hash_log[1].hash = hash_log[2].hash
    /\ hash_log[3].hash # hash_log[1].hash

----------------------------------------------------------------------------
(* The forms' submit and predict requests: specification FormSpec. Step    *)
(* navigation and validation are left out: any field may be set at any     *)
(* time before the submit.                                                 *)

\* updateField(fieldId, value) and handleAnswer(value): [fieldId]: value
updateField(fieldId, value) ==
    /\ ~showSuccess
    /\ formState' = [formState EXCEPT !.data[fieldId] = value]
    /\ UNCHANGED <<showSuccess, handleSubmit, predict_request, personalEstimate,
                   db_vars, hash_vars, ui_vars>>

\* handleSubmit starts: isSubmitting is set and POST /api/submit is sent with
\* the formState.data of this render, which the closure keeps
Submit ==
    /\ ~showSuccess
    /\ handleSubmit.pc = "idle"
    /\ formState' = [formState EXCEPT !.isSubmitting = TRUE]
    /\ handleSubmit' = [NotCalled EXCEPT !.pc = "submit", !.data = formState.data]
    /\ UNCHANGED <<showSuccess, predict_request, personalEstimate, db_vars, hash_vars, ui_vars>>

\* the response of POST /api/submit arrives: if response.ok the traits are
\* built and GET /api/predict is sent, otherwise the error is alerted
SubmitResponse(ok) ==
    /\ handleSubmit.pc = "submit"
    /\ IF ok
       THEN /\ predict_request' = traits_query(handleSubmit.data)
            /\ handleSubmit' = [handleSubmit EXCEPT !.pc = "predict", !.submit = "ok"]
            /\ UNCHANGED formState
       ELSE /\ handleSubmit' = [NotCalled EXCEPT !.submit = "not ok"]
            /\ formState' = [formState EXCEPT !.isSubmitting = FALSE]
            /\ UNCHANGED predict_request
    /\ UNCHANGED <<showSuccess, personalEstimate, db_vars, hash_vars, ui_vars>>

\* showSuccess after a predict call that has no try / catch of its own: a
\* throw reaches the catch of the submission
setShowSuccess_uncaught(outcome) == outcome # "throws"

\* setShowSuccess(true) follows the inner try / catch, whatever its outcome
setShowSuccess(outcome) == TRUE

\* the predict call ends: an OK response is kept as personalEstimate, a
\* non-OK one or a throw is not; then setShowSuccess(true)
PredictResponse(outcome) ==
    /\ handleSubmit.pc = "predict"
    /\ personalEstimate' = IF outcome = "ok" THEN <<"object", "prediction">>
                           ELSE personalEstimate
    /\ showSuccess' = setShowSuccess(outcome)
    /\ formState' = [formState EXCEPT !.isSubmitting = FALSE]
    /\ handleSubmit' = [handleSubmit EXCEPT !.pc = "idle", !.predict = outcome]
    /\ UNCHANGED <<predict_request, db_vars, hash_vars, ui_vars>>

\* handleReset on the success screen
handleReset ==
    /\ showSuccess
    /\ showSuccess' = FALSE
    /\ formState' = InitialFormState
    /\ handleSubmit' = NotCalled
    /\ predict_request' = NoRequest
    /\ personalEstimate' = JSnull
    /\ UNCHANGED <<db_vars, hash_vars, ui_vars>>

FormInit == db_idle /\ hash_idle /\ form_idle /\ ui_idle

FormNext ==
    \/ \E fieldId \in FieldIds : \E value \in FieldValues(fieldId) : updateField(fieldId, value)
    \/ Submit
    \/ \E ok \in BOOLEAN : SubmitResponse(ok)
    \/ \E outcome \in {"ok", "not ok", "throws"} : PredictResponse(outcome)
    \/ handleReset

FormSpec == FormInit /\ [][FormNext]_vars

\* the keys of a query and the parameters it carries
Params(query) == {query[i] : i \in DOMAIN query}

(* C20: the predict request sent after a successful submit carries exactly *)
(* the trait fields of the submitted form data whose value is neither null *)
(* nor undefined, each once, and never trips or stops.                     *)
C20_PredictCarriesSetTraits ==
    predict_request # NoRequest =>
        /\ \A trait \in Traits :
              LET value == handleSubmit.data[trait]
              IN  IF value = JSnull \/ value = JSundefined
                  THEN \A p \in Params(predict_request) : p[1] # trait
                  ELSE /\ <<trait, value[2]>> \in Params(predict_request)
                       /\ Cardinality({i \in DOMAIN predict_request :
                                          predict_request[i][1] = trait}) = 1
        /\ \A p \in Params(predict_request) : p[1] \in Traits

\* a submit with trips and stops set, a null gender, a chosen height, a false
\* concession and the other traits unset has gone through
C20_Witness ==
    /\ handleSubmit.pc = "predict"
    /\ handleSubmit.data.trips = JSnumber(3)
    /\ handleSubmit.data.stops = JSnumber(1)
    /\ handleSubmit.data.gender = JSnull
    /\ handleSubmit.data.age_bracket = JSundefined
    /\ Params(predict_request) = {<<"height_bracket", "PreferNot">>, <<"concession", "false">>}

(***************************************************************************)
(* The submit proxy: POST /api/submit of the Next.js app, which forwards   *)
(* the form's body to the backend.  ProxySpec runs it over request bodies  *)
(* and backend outcomes.                                                   *)
(***************************************************************************)

\* formFields: the option values of the select fields
formFields_options(fieldId) ==
    CASE fieldId = "age_bracket" -> {"18-24", "25-34", "35-44", "45+"}
      [] fieldId = "gender" -> {"Male", "Female", "Nonbinary", "PreferNot"}
      [] fieldId = "ethnicity" ->
            {"Anglo Australian", "Indigenous", "South Asian", "East Asian",
             "Southeast Asian", "Middle Eastern", "African", "European",
             "Latin American", "Other", "PreferNot"}
      [] fieldId = "skin_tone" -> {"Light", "Medium", "Dark", "PreferNot"}
      [] fieldId = "height_bracket" -> {"<160", "160-175", "175-190", ">190", "PreferNot"}
      [] OTHER -> {}

BooleanFields == {"visible_disability", "concession"}

\* what a form can hold in a field: an option, true / false, a number, null
\* (e.target.value || null, 'Prefer not to say'), or nothing yet (undefined)
FormValues(fieldId) ==
    IF fieldId \in {"trips", "stops"} THEN {JSnumber(0), JSnumber(3), JSnull}
    ELSE IF fieldId \in BooleanFields
         THEN {JSboolean("true"), JSboolean("false"), JSnull, JSundefined}
         ELSE {JSstring(o) : o \in formFields_options(fieldId)} \cup {JSnull, JSundefined}

\* the body is formState.data of one of the forms
IsFormBody(body) ==
    /\ DOMAIN body = FieldIds
    /\ \A fieldId \in FieldIds : body[fieldId] \in FormValues(fieldId)

AllPreferNot ==
    [fieldId \in FieldIds |->
        IF formFields_options(fieldId) # {} THEN JSstring("PreferNot")
        ELSE InitialData[fieldId]]

\* request bodies: form data with one field answered, every select on
\* 'PreferNot', and bodies of other callers: a key that is no form field, a
\* body with few keys, a nested object that mentions PreferNot
ProxyBodies ==
    {[InitialData EXCEPT ![fieldId] = v] :
        fieldId \in {"gender"}, v \in FormValues("gender")}
    \cup {[InitialData EXCEPT !.age_bracket = v] : v \in FormValues("age_bracket")}
    \cup {[InitialData EXCEPT !.ethnicity = v] : v \in FormValues("ethnicity")}
    \cup {[InitialData EXCEPT !.skin_tone = v] : v \in FormValues("skin_tone")}
    \cup {[InitialData EXCEPT !.height_bracket = v] : v \in FormValues("height_bracket")}
    \cup {[InitialData EXCEPT !.concession = v] : v \in FormValues("concession")}
    \cup {[InitialData EXCEPT !.visible_disability = v] : v \in FormValues("visible_disability")}
    \cup {[InitialData EXCEPT !.trips = v] : v \in FormValues("trips")}
    \cup {AllPreferNot,
          [trips |-> JSstring("PreferNot"), comment |-> JSstring("PreferNot")],
          [trips |-> JSnumber(3), stops |-> JSnumber(0),
           extra |-> <<"object", "{ gender: 'PreferNot' }">>]}

\* sanitizedBody when only height_bracket is cleaned
sanitize_height(body) ==
    [key \in DOMAIN body |->
        IF key = "height_bracket" /\ body[key] = JSstring("PreferNot") THEN JSnull
        ELSE body[key]]

\* sanitizedBody when nothing is cleaned
sanitize_nothing(body) == body

\* sanitizedBody = { ...body }, then every key whose value === 'PreferNot'
\* is set to null
sanitize(body) ==
    [key \in DOMAIN body |->
        IF body[key] = JSstring("PreferNot") THEN JSnull ELSE body[key]]

\* JSON.stringify(sanitizedBody): a key whose value is undefined is left out
JSON_stringify(object) ==
    [key \in {k \in DOMAIN object : object[k] # JSundefined} |-> object[key]]

\* what the backend does with the forwarded request: it answers with a
\* status and a readable body, it answers but the body cannot be read, or
\* fetch rejects
BackendOutcomes ==
    {<<kind, status>> : kind \in {"answers", "unreadable"},
                        status \in {200, 201, 400, 404, 422, 429, 500, 503}}
    \cup {<<"rejects", 0>>}

\* Response.ok
response_ok(status) == status >= 200 /\ status <= 299

\* the proxy's answer when every backend answer is passed on as a success
proxy_response_passes(outcome) == <<200, "data">>

\* the proxy's answer <<status, body>> for a backend outcome
proxy_response(outcome) ==
    IF outcome[1] = "answers"
    THEN IF response_ok(outcome[2]) THEN <<200, "data">>
         ELSE <<outcome[2], "Submission failed">>
    ELSE <<500, "Internal server error">>

\* POST: request.json() gives the body, which is sanitized and forwarded
ProxyReceive(body) ==
    /\ proxy.pc = "idle"
    /\ proxy' = [ProxyIdle EXCEPT !.pc = "fetching", !.body = body,
                                  !.sanitizedBody = sanitize(body)]
    /\ UNCHANGED <<timeouts, results, db_vars, hash_vars, form_vars>>

\* POST: request.json() throws, the catch block answers
ProxyBadRequest ==
    /\ proxy.pc = "idle"
    /\ proxy' = [ProxyIdle EXCEPT !.pc = "done",
                                  !.response = <<500, "Internal server error">>]
    /\ UNCHANGED <<timeouts, results, db_vars, hash_vars, form_vars>>

\* the forwarded request ends and the proxy builds its response
ProxyBackend(outcome) ==
    /\ proxy.pc = "fetching"
    /\ proxy' = [proxy EXCEPT !.pc = "done", !.backend = outcome,
                              !.response = proxy_response(outcome)]
    /\ UNCHANGED <<timeouts, results, db_vars, hash_vars, form_vars>>

\* the response is sent; the handler is ready for the next request
ProxyReturn ==
    /\ proxy.pc = "done"
    /\ proxy' = ProxyIdle
    /\ UNCHANGED <<timeouts, results, db_vars, hash_vars, form_vars>>

ProxyNext ==
    \/ \E body \in ProxyBodies : ProxyReceive(body)
    \/ ProxyBadRequest
    \/ \E outcome \in BackendOutcomes : ProxyBackend(outcome)
    \/ ProxyReturn

\* FormInit: every component in its initial state
ProxySpec == FormInit /\ [][ProxyNext]_vars

\* C21: a backend answer with a non-OK status comes back from the proxy as an
\* error with that same status, a forwarding that throws comes back as status
\* 500, and the success body comes back only when the backend response is OK
C21_RejectionReportedAsFailure ==
    proxy.pc = "done" =>
        /\ (proxy.backend[1] = "answers" /\ ~response_ok(proxy.backend[2])) =>
                proxy.response = <<proxy.backend[2], "Submission failed">>
        /\ proxy.backend[1] \in {"rejects", "unreadable", "none"} =>
                proxy.response[1] = 500
        /\ proxy.response[2] = "data" =>
                (proxy.backend[1] = "answers" /\ response_ok(proxy.backend[2]))

C21_Witness ==
    /\ proxy.pc = "done"
    /\ proxy.backend = <<"answers", 422>>
    /\ proxy.response = <<422, "Submission failed">>

\* C27: every trait the backend receives from a form through the proxy is
\* null or in the trait's database enumeration (booleans true, false or
\* null); height_bracket 'PreferNot' never arrives
C27_ForwardedTraitsInEnum ==
    (proxy.pc \in {"fetching", "done"} /\ IsFormBody(proxy.body)) =>
        LET sent == JSON_stringify(proxy.sanitizedBody) IN
        /\ \A trait \in Traits \cap DOMAIN sent :
                \/ sent[trait] = JSnull
                \/ /\ sent[trait][1] = IF trait \in BooleanFields THEN "boolean"
                                      ELSE "string"
                   /\ sent[trait][2] \in TraitEnum(trait)
        /\ "height_bracket" \in DOMAIN sent =>
                sent.height_bracket # JSstring("PreferNot")

C27_Witness ==
    /\ proxy.pc = "fetching"
    /\ proxy.body = [InitialData EXCEPT !.height_bracket = JSstring("PreferNot")]
    /\ JSON_stringify(proxy.sanitizedBody).height_bracket = JSnull

\* C28: the sanitization sets to null every top-level field whose value is
\* 'PreferNot', whichever field it is, leaves the other fields as they are,
\* keeps the set of keys, and applied twice gives what it gives once
C28_SanitizationFrame ==
    proxy.pc \in {"fetching", "done"} =>
        /\ DOMAIN proxy.sanitizedBody = DOMAIN proxy.body
        /\ \A key \in DOMAIN proxy.body :
                proxy.sanitizedBody[key] =
                    IF proxy.body[key] = JSstring("PreferNot") THEN JSnull
                    ELSE proxy.body[key]
        /\ sanitize(proxy.sanitizedBody) = proxy.sanitizedBody

C28_Witness ==
    /\ proxy.pc = "fetching"
    /\ proxy.body = AllPreferNot
    /\ proxy.sanitizedBody.gender = JSnull
    /\ proxy.sanitizedBody.ethnicity = JSnull
    /\ proxy.sanitizedBody.trips = JSnumber(0)

(***************************************************************************)
(* GamifiedForm: one question per screen, answered by clicking an option   *)
(* card (AnimatedButton), whose click reaches handleAnswer 200 ms later.   *)
(* GamifiedSpec interleaves clicks, Previous, the delayed callbacks and    *)
(* the submission that starts when the last question is answered.          *)
(***************************************************************************)

\* pending callbacks a run may hold at once
MaxPending == 2

gamifiedQuestions ==
    <<"trips", "stops", "age_bracket", "gender", "ethnicity", "skin_tone",
      "height_bracket", "concession", "visible_disability">>

\* isComplete
isComplete(state) == state.currentStep >= Len(gamifiedQuestions)

\* the option values shown for a question, given the data of the render
getOptionsForQuestion(question, data) ==
    CASE question = "trips" -> {JSnumber(n) : n \in {3, 8, 15, 35, 75}}
      [] question = "stops" ->
            LET trips == IF data.trips[1] = "number" /\ data.trips[2] # 0
                         THEN data.trips[2] ELSE 10
                maxStops == IF trips < 20 THEN trips ELSE 20
            IN  {JSnumber(i) : i \in 0..maxStops}
      [] question \in BooleanFields ->
            {JSboolean("true"), JSboolean("false"), JSnull}
      [] OTHER -> {JSstring(o) : o \in formFields_options(question)} \cup {JSnull}

\* the options a run clicks: the smallest and the largest number of trips,
\* the largest number of stops, and 'Prefer not to answer' for a trait
ClickedOptions(question, data) ==
    LET shown == getOptionsForQuestion(question, data) IN
    CASE question = "trips" ->
            {v \in shown : \A w \in shown : v[2] <= w[2]}
            \cup {v \in shown : \A w \in shown : v[2] >= w[2]}
      [] question = "stops" -> {v \in shown : \A w \in shown : v[2] >= w[2]}
      [] OTHER -> {JSnull}

\* useEffect without its dependency list: handleSubmit runs after every
\* render that is complete and not yet successful
useEffect_every_render(before, after) == isComplete(after) /\ ~showSuccess

\* useEffect(() => { if (isComplete && !showSuccess) handleSubmit(); },
\* [isComplete]): runs after a render in which isComplete has changed
useEffect_isComplete(before, after) ==
    /\ isComplete(after) # isComplete(before)
    /\ isComplete(after) /\ ~showSuccess

\* AnimatedButton.handleClick on an option card of the current question:
\* onClick, which answers that question with that option, is scheduled
AnimatedButton_handleClick(value) ==
    /\ ~showSuccess /\ ~isComplete(formState)
    /\ Len(timeouts) < MaxPending
    /\ LET question == gamifiedQuestions[formState.currentStep + 1] IN
       /\ value \in ClickedOptions(question, formState.data)
       /\ timeouts' = Append(timeouts, <<question, value>>)
    /\ UNCHANGED <<proxy, results, db_vars, hash_vars, form_vars>>

\* a scheduled callback runs handleAnswer of the render it was created in:
\* the value is written under that render's question and currentStep grows
\* by one from the present state; if the form becomes complete, the effect
\* starts handleSubmit with the data of the completing render
handleAnswer ==
    /\ timeouts # <<>>
    /\ timeouts' = Tail(timeouts)
    /\ LET question == Head(timeouts)[1]
           value == Head(timeouts)[2]
           after == [formState EXCEPT !.data[question] = value,
                                      !.currentStep = @ + 1]
       IN  IF useEffect_isComplete(formState, after)
           THEN /\ formState' = [after EXCEPT !.isSubmitting = TRUE]
                /\ handleSubmit' = [NotCalled EXCEPT !.pc = "submit", !.data = after.data]
           ELSE /\ formState' = after
                /\ UNCHANGED handleSubmit
    /\ UNCHANGED <<showSuccess, predict_request, personalEstimate,
                   proxy, results, db_vars, hash_vars>>

\* handlePrevious, the Previous button of a question screen after the first
GamifiedForm_handlePrevious ==
    /\ ~showSuccess /\ ~isComplete(formState)
    /\ formState.currentStep > 0
    /\ formState' = [formState EXCEPT !.currentStep = @ - 1]
    /\ UNCHANGED <<showSuccess, handleSubmit, predict_request, personalEstimate,
                   db_vars, hash_vars, ui_vars>>

\* what the user can do on the screen that is shown
GamifiedUserAction ==
    \/ \E value \in ClickedOptions("trips", InitialData)
                    \cup ClickedOptions("stops", InitialData)
                    \cup ClickedOptions("stops", [InitialData EXCEPT !.trips = JSnumber(3)])
                    \cup ClickedOptions("stops", [InitialData EXCEPT !.trips = JSnumber(75)])
                    \cup {JSnull} : AnimatedButton_handleClick(value)
    \/ GamifiedForm_handlePrevious
    \/ handleReset

GamifiedNext ==
    \/ GamifiedUserAction
    \/ handleAnswer
    \/ \E ok \in BOOLEAN : SubmitResponse(ok)
    \/ \E outcome \in {"ok", "not ok", "throws"} : PredictResponse(outcome)

GamifiedSpec == FormInit /\ [][GamifiedNext]_vars

\* C22: the payload GamifiedForm POSTs to /api/submit has 1 <= trips <= 200
\* and 0 <= stops <= trips, whatever the order of clicks, Previous and
\* delayed callbacks
C22_PayloadWithinRange ==
    handleSubmit.pc = "submit" =>
        LET data == handleSubmit.data IN
        /\ data.trips[1] = "number" /\ data.stops[1] = "number"
        /\ 1 <= data.trips[2] /\ data.trips[2] <= trips_max
        /\ 0 <= data.stops[2] /\ data.stops[2] <= data.trips[2]

\* C23: a callback that fires writes under the question that is current when
\* it fires, and no trait question behind currentStep is left unanswered
C23_NoQuestionSkipped ==
    /\ [][(timeouts # <<>> /\ timeouts' = Tail(timeouts)) =>
            /\ ~isComplete(formState)
            /\ Head(timeouts)[1] = gamifiedQuestions[formState.currentStep + 1]
            /\ formState'.currentStep = formState.currentStep + 1]_vars
    /\ [](\A k \in 3..Len(gamifiedQuestions) :
            k <= formState.currentStep =>
                formState.data[gamifiedQuestions[k]] # JSundefined)

\* the POST of a completed form has failed: complete, no success screen, no
\* handleSubmit running
GamifiedFailed ==
    /\ isComplete(formState) /\ ~showSuccess
    /\ handleSubmit.pc = "idle"

\* C25: GamifiedForm starts handleSubmit exactly when the questions become
\* complete; after a failed POST it stays complete, without success and not
\* submitting, issues no further POST, and offers no click, Previous or reset
C25_SubmitOncePerCompletion ==
    /\ [][(handleSubmit' # handleSubmit /\ handleSubmit'.pc = "submit")
            <=> (~isComplete(formState) /\ isComplete(formState'))]_vars
    /\ [][GamifiedFailed =>
            (GamifiedFailed' /\ ~formState'.isSubmitting /\ UNCHANGED handleSubmit)]_vars
    /\ [](GamifiedFailed => (~formState.isSubmitting /\ ~ENABLED GamifiedUserAction))

C25_Witness ==
    /\ GamifiedFailed
    /\ formState.currentStep = Len(gamifiedQuestions) + 1
    /\ timeouts = <<>>

\* C26: when handleSubmit has finished, showSuccess is true exactly if the
\* POST /api/submit response was OK, whatever the predict call did; after a
\* non-OK or throwing predict call personalEstimate is null and the success
\* screen is shown; isSubmitting is false in every outcome
C26_SuccessIffSubmitOk ==
    (handleSubmit.pc = "idle" /\ handleSubmit.submit # "none") =>
        /\ showSuccess <=> handleSubmit.submit = "ok"
        /\ handleSubmit.predict \in {"not ok", "throws"} =>
                (personalEstimate = JSnull /\ showSuccess)
        /\ ~formState.isSubmitting

C26_Witness ==
    /\ handleSubmit.pc = "idle"
    /\ handleSubmit.submit = "ok" /\ handleSubmit.predict = "throws"
    /\ showSuccess /\ personalEstimate = JSnull /\ ~formState.isSubmitting

(***************************************************************************)
(* SubmissionForm and MaterialSubmissionForm: four steps of fields with    *)
(* Next, Previous and, on the last step, Submit.  The two components have  *)
(* the same validateCurrentStep, handleNext, handlePrevious and the same   *)
(* buttons; StepperSpec runs them with the submission of the Material form.*)
(***************************************************************************)

totalSteps == 4

\* getFieldsByStep(step): the ids of stepsConfig[step]
getFieldsByStep(step) ==
    (<<{"trips", "stops"}, {"age_bracket", "gender"}, {"ethnicity", "skin_tone"},
       {"height_bracket", "visible_disability", "concession"}>>)[step + 1]

\* isLastStep when the Submit button is shown on every step
isLastStep_every_step(state) == TRUE

isLastStep(state) == state.currentStep = totalSteps - 1

\* what the number inputs and the other inputs hand to updateField
StepperValues(fieldId) ==
    CASE fieldId = "trips" -> {JSnull, JSnumber(3), JSnumber(200), JSnumber(201)}
      [] fieldId = "stops" -> {JSnull, JSnumber(-1), JSnumber(4)}
      [] OTHER -> FieldValues(fieldId)

\* validateCurrentStep when stops is not compared with trips
stops_not_compared(data) == FALSE

\* field.id === 'stops' && formState.data.trips && value set &&
\* Number(value) > formState.data.trips
stops_exceed_trips(data) ==
    /\ data.trips[1] = "number" /\ data.trips[2] # 0
    /\ data.stops # JSnull /\ data.stops # JSundefined
    /\ data.stops[2] > data.trips[2]

\* validateCurrentStep: the field gets an error message
FieldError(fieldId, data) ==
    LET value == data[fieldId]
        required == fieldId \in {"trips", "stops"}
        number == fieldId \in {"trips", "stops"}
        set == value # JSnull /\ value # JSundefined
    IN  \/ required /\ (~set \/ value = JSstring(""))
        \/ number /\ set /\
            \/ fieldId = "trips" /\ value[2] < 1
            \/ fieldId = "stops" /\ value[2] < 0
            \/ fieldId = "trips" /\ value[2] > 200
        \/ fieldId = "stops" /\ stops_exceed_trips(data)

\* validateCurrentStep(): no field of the current step has an error
validateCurrentStep(state) ==
    \A fieldId \in getFieldsByStep(state.currentStep) : ~FieldError(fieldId, state.data)

\* updateField from an input of the current step
StepperForm_updateField(fieldId, value) ==
    /\ fieldId \in getFieldsByStep(formState.currentStep)
    /\ updateField(fieldId, value)

\* handleNext, the button of every step but the last
handleNext ==
    /\ ~showSuccess /\ ~isLastStep(formState)
    /\ formState' =
            IF validateCurrentStep(formState)
            THEN [formState EXCEPT !.currentStep =
                        IF @ + 1 < totalSteps - 1 THEN @ + 1 ELSE totalSteps - 1]
            ELSE formState
    /\ UNCHANGED <<showSuccess, handleSubmit, predict_request, personalEstimate,
                   db_vars, hash_vars, ui_vars>>

\* handlePrevious, the button of every step but the first (isFirstStep)
StepperForm_handlePrevious ==
    /\ ~showSuccess /\ formState.currentStep # 0
    /\ formState' = [formState EXCEPT !.currentStep = IF @ - 1 > 0 THEN @ - 1 ELSE 0]
    /\ UNCHANGED <<showSuccess, handleSubmit, predict_request, personalEstimate,
                   db_vars, hash_vars, ui_vars>>

\* handleSubmit, the button of the last step, disabled while isSubmitting:
\* it returns if the step does not validate, else it POSTs the data
StepperForm_handleSubmit ==
    /\ isLastStep(formState) /\ ~formState.isSubmitting
    /\ validateCurrentStep(formState)
    /\ Submit

StepperNext ==
    \/ \E fieldId \in FieldIds : \E value \in StepperValues(fieldId) :
            StepperForm_updateField(fieldId, value)
    \/ handleNext
    \/ StepperForm_handlePrevious
    \/ StepperForm_handleSubmit
    \/ \E ok \in BOOLEAN : SubmitResponse(ok)
    \/ \E outcome \in {"ok", "not ok", "throws"} : PredictResponse(outcome)
    \/ handleReset

StepperSpec == FormInit /\ [][StepperNext]_vars

\* trips and stops are numbers with 1 <= trips <= 200 and 0 <= stops <= trips
WithinBounds(data) ==
    /\ data.trips[1] = "number" /\ data.stops[1] = "number"
    /\ 1 <= data.trips[2] /\ data.trips[2] <= trips_max
    /\ 0 <= data.stops[2] /\ data.stops[2] <= data.trips[2]

\* C24: in the stepper forms, whenever currentStep > 0 the data has
\* 1 <= trips <= 200 and 0 <= stops <= trips, and so has every payload POSTed
C24_BoundsBeyondFirstStep ==
    /\ formState.currentStep > 0 => WithinBounds(formState.data)
    /\ handleSubmit.pc = "submit" => WithinBounds(handleSubmit.data)

C24_Witness ==
    /\ handleSubmit.pc = "submit"
    /\ handleSubmit.data.trips = JSnumber(200) /\ handleSubmit.data.stops = JSnumber(4)
    /\ formState.currentStep = 1

\* C30: currentStep stays within 0..totalSteps - 1; it grows only by one and
\* only from a step whose fields validate; Previous is offered on every step
\* after the first whether or not the fields validate; a POST is issued
\* only from the last step
C30_StepWithinRange ==
    /\ [](formState.currentStep \in 0..(totalSteps - 1))
    /\ [][formState'.currentStep > formState.currentStep =>
            /\ formState'.currentStep = formState.currentStep + 1
            /\ (formState.currentStep = 0 => WithinBounds(formState.data))]_vars
    /\ []((~showSuccess /\ formState.currentStep > 0) => ENABLED StepperForm_handlePrevious)
    /\ [][(handleSubmit' # handleSubmit /\ handleSubmit'.pc = "submit") =>
            formState.currentStep = totalSteps - 1]_vars

C30_Witness ==
    /\ handleSubmit.pc = "submit"
    /\ formState.currentStep = 0
    /\ formState.data.trips = JSnumber(201)
    /\ handleSubmit.data.trips = JSnumber(3)

(***************************************************************************)
(* ResultsPage: on mount fetchData requests /api/overview and /api/methods *)
(* together and sets the page's state from the two responses.              *)
(***************************************************************************)

\* how a request ends: an OK response with a body, an OK response whose body
\* is no JSON, a non-OK response, or a rejected fetch
ResponseOutcomes ==
    {<<"ok", "a">>, <<"ok", "b">>, <<"bad json", 200>>,
     <<"not ok", 404>>, <<"not ok", 500>>, <<"rejects", 0>>}

\* await res.json()
json(res) == IF res[1] = "ok" THEN <<"object", res[2]>> ELSE JSnull

\* fetchData's try block when only the overview response is examined
fetchData_try_overview_only(overviewRes, methodsRes) ==
    IF overviewRes[1] = "ok" THEN "set" ELSE "Failed to fetch data"

\* fetchData's try block up to the setters: "set" if it gets there, else the
\* message of what was thrown
fetchData_try(overviewRes, methodsRes) ==
    IF "rejects" \in {overviewRes[1], methodsRes[1]} THEN "Failed to fetch"
    ELSE IF "not ok" \in {overviewRes[1], methodsRes[1]} THEN "Failed to fetch data"
    ELSE IF "bad json" \in {overviewRes[1], methodsRes[1]} THEN "Unexpected token"
    ELSE "set"

\* useEffect(() => { fetchData() }, []): the page mounts, the requests go out
ResultsPage_mount ==
    /\ results.pc = "unmounted"
    /\ results' = [ResultsPage_useState EXCEPT !.pc = "fetching"]
    /\ UNCHANGED <<timeouts, proxy, db_vars, hash_vars, form_vars>>

\* the awaits of the try block end
fetchData_await(overviewRes, methodsRes) ==
    /\ results.pc = "fetching"
    /\ LET end == fetchData_try(overviewRes, methodsRes) IN
       results' = [results EXCEPT !.overviewRes = overviewRes,
                                  !.methodsRes = methodsRes,
                                  !.err = end,
                                  !.pc = IF end = "set" THEN "setOverview" ELSE "catch"]
    /\ UNCHANGED <<timeouts, proxy, db_vars, hash_vars, form_vars>>

\* setOverview(overviewData); setMethods(methodsData)
fetchData_set ==
    /\ results.pc \in {"setOverview", "setMethods"}
    /\ results' =
            IF results.pc = "setOverview"
            THEN [results EXCEPT !.overview = json(results.overviewRes),
                                 !.pc = "setMethods"]
            ELSE [results EXCEPT !.methods = json(results.methodsRes),
                                 !.pc = "finally"]
    /\ UNCHANGED <<timeouts, proxy, db_vars, hash_vars, form_vars>>

\* catch (err): setError(err.message)
fetchData_catch ==
    /\ results.pc = "catch"
    /\ results' = [results EXCEPT !.error = JSstring(results.err), !.pc = "finally"]
    /\ UNCHANGED <<timeouts, proxy, db_vars, hash_vars, form_vars>>

\* finally: setLoading(false)
fetchData_finally ==
    /\ results.pc = "finally"
    /\ results' = [results EXCEPT !.loading = FALSE, !.pc = "done"]
    /\ UNCHANGED <<timeouts, proxy, db_vars, hash_vars, form_vars>>

\* the user leaves the page; a later visit mounts it anew
ResultsPage_unmount ==
    /\ results.pc = "done"
    /\ results' = ResultsPage_useState
    /\ UNCHANGED <<timeouts, proxy, db_vars, hash_vars, form_vars>>

ResultsNext ==
    \/ ResultsPage_mount
    \/ \E overviewRes, methodsRes \in ResponseOutcomes :
            fetchData_await(overviewRes, methodsRes)
    \/ fetchData_set
    \/ fetchData_catch
    \/ fetchData_finally
    \/ ResultsPage_unmount

ResultsSpec == FormInit /\ [][ResultsNext]_vars

\* C29: once fetchData has finished, loading is false and either error is set
\* and neither overview nor methods is, or error is null and both are set;
\* the page never shows one of them without the other
C29_ResultsAllOrNothing ==
    /\ results.pc = "done" =>
        /\ ~results.loading
        /\ \/ /\ results.error # JSnull
              /\ results.overview = JSnull /\ results.methods = JSnull
           \/ /\ results.error = JSnull
              /\ results.overview # JSnull /\ results.methods # JSnull
    /\ ~results.loading => (results.overview = JSnull <=> results.methods = JSnull)

C29_Witness ==
    /\ results.pc = "done"
    /\ results.overviewRes = <<"ok", "a">> /\ results.methodsRes = <<"not ok", 500>>
    /\ results.error = JSstring("Failed to fetch data")
    /\ results.overview = JSnull /\ results.methods = JSnull

====
